---- MODULE Spec2Model ----
(***************************************************************************)
(* Model of api/index.js: the process-wide Turvo token cache               *)
(* (getAuthToken), the four Express handlers with their outbound calls,    *)
(* and the stop selection of parseShipmentData.                            *)
(*                                                                         *)
(* JavaScript values: an optional value (undefined / null / absent field)  *)
(* is the empty tuple None, a present value v is the one-element tuple     *)
(* Some(v).  A formatted string is the tuple of its parts.                 *)
(***************************************************************************)
EXTENDS Integers, Sequences, FiniteSets, TLC

\* ---- bounds of the model ----
MaxReq == 2        \* requests received in one run
MaxTicks == 1      \* clock ticks in one run
TickSec == 30      \* seconds per clock tick
MaxRoute == 3      \* longest globalRoute given to parseShipmentData

\* ---- program constants ----
MsPerSec == 1000        \* "* 1000" in getAuthToken
SafetyMarginSec == 60   \* "expires_in - 60" in getAuthToken

\* a JSON value of a request body by its type and its text
Str(s) == [typeof |-> "string", text |-> s]
Num(s) == [typeof |-> "number", text |-> s]

None == <<>>
Some(v) == <<v>>
IsSome(o) == Len(o) = 1
Val(o) == o[1]

\* JS truthiness of an optional string: undefined and "" are falsy.
Truthy(o) == IsSome(o) /\ Val(o) # ""

\* truthiness of an optional JSON value: absent, "" and 0 are falsy
TruthyValue(o) ==
  IsSome(o) /\ (IF Val(o).typeof = "string" THEN Val(o).text # "" ELSE Val(o).text # "0")

\* a || b on optional strings, b a plain default
OrElse(o, d) == IF Truthy(o) THEN Val(o) ELSE d

(***************************************************************************)
(* parseShipmentData                                                       *)
(***************************************************************************)
StopLabels == {"Pickup", "pickup", "DELIVERY", "Delivery", "Stop"}

\* String.prototype.toLowerCase on the label alphabet
ToLowerCase(s) ==
  CASE s = "Pickup"   -> "pickup"
    [] s = "pickup"   -> "pickup"
    [] s = "DELIVERY" -> "delivery"
    [] s = "Delivery" -> "delivery"
    [] s = "Stop"     -> "stop"
    [] OTHER          -> s

\* r.stopType?.value?.toLowerCase() === label
StopTypeIs(r, label) ==
  IsSome(r.stopType) /\ ToLowerCase(Val(r.stopType)) = label

\* Array.prototype.find: first entry (lowest index) satisfying the test
RECURSIVE FindFrom(_, _, _)
FindFrom(route, label, i) ==
  IF i > Len(route) THEN None
  ELSE IF StopTypeIs(route[i], label) THEN Some(route[i])
  ELSE FindFrom(route, label, i + 1)

\* Array.prototype.findLast: last entry (highest index) satisfying the test
RECURSIVE FindLastFrom(_, _, _)
FindLastFrom(route, label, i) ==
  IF i < 1 THEN None
  ELSE IF StopTypeIs(route[i], label) THEN Some(route[i])
  ELSE FindLastFrom(route, label, i - 1)

\* details.globalRoute?.find(r => ... === 'pickup')
originStopOf(d) ==
  IF IsSome(d.globalRoute) THEN FindFrom(Val(d.globalRoute), "pickup", 1) ELSE None

\* a plausible slip: findLast replaced by find
destStopFirstMatch(d) ==
  IF IsSome(d.globalRoute) THEN FindFrom(Val(d.globalRoute), "delivery", 1) ELSE None

\* details.globalRoute?.findLast(r => ... === 'delivery')
destStopOf(d) ==
  IF IsSome(d.globalRoute)
  THEN FindLastFrom(Val(d.globalRoute), "delivery", Len(Val(d.globalRoute)))
  ELSE None

\* addr ? `${addr.city || 'N/A'}, ${addr.state || 'N/A'}` : 'N/A'
formatAddress(addr) ==
  IF IsSome(addr)
  THEN <<OrElse(Val(addr).city, "N/A"), ", ", OrElse(Val(addr).state, "N/A")>>
  ELSE <<"N/A">>

\* stop.appointment?.X for an optional field X of an optional appointment
ApptField(stop, f) ==
  IF IsSome(stop.appointment) THEN Val(stop.appointment)[f] ELSE None

getStopDetails(stop) ==
  IF ~IsSome(stop) THEN [date |-> None, scheduling |-> "N/A", window |-> 0]
  ELSE [date       |-> IF Truthy(ApptField(Val(stop), "date"))
                       THEN ApptField(Val(stop), "date") ELSE None,
        scheduling |-> OrElse(Val(stop).schedulingType, "N/A"),
        window     |-> IF IsSome(ApptField(Val(stop), "flex"))
                          /\ Val(ApptField(Val(stop), "flex")) # 0
                       THEN Val(ApptField(Val(stop), "flex")) ELSE 0]

\* stop?.address
AddressOf(stop) == IF IsSome(stop) THEN Val(stop).address ELSE None

\* BOL number: key '1402' of customerOrder[0].externalIds
BolTypeKey == "1402"

RECURSIVE FindExt(_, _)
FindExt(exts, i) ==
  IF i > Len(exts) THEN None
  ELSE IF IsSome(exts[i].type) /\ Val(exts[i].type) = BolTypeKey THEN Some(exts[i])
  ELSE FindExt(exts, i + 1)

\* details.customerOrder?.[0]
FirstOrder(d) ==
  IF IsSome(d.customerOrder) /\ Len(Val(d.customerOrder)) > 0
  THEN Some(Val(d.customerOrder)[1]) ELSE None

bolOf(d) ==
  LET o == FirstOrder(d) IN
  IF IsSome(o) /\ IsSome(Val(o).externalIds)
  THEN LET e == FindExt(Val(Val(o).externalIds), 1) IN
       IF IsSome(e) THEN Val(e).value ELSE "N/A"
  ELSE "N/A"

customerOf(d) ==
  LET o == FirstOrder(d) IN
  IF IsSome(o) /\ IsSome(Val(o).customer) THEN OrElse(Val(Val(o).customer).name, "N/A")
  ELSE "N/A"

\* The flat record; threw = TRUE is the thrown "details object missing".
\* Fields that are plain pass-through defaults of details.status / carrier /
\* dates are not part of the record modelled here.
parseShipmentData(details) ==
  IF ~IsSome(details) THEN [threw |-> TRUE]
  ELSE LET d == Val(details) IN
    [threw          |-> FALSE,
     internalId     |-> d.id,
     id             |-> OrElse(d.customId, d.id),
     turvoUrl       |-> <<"https://app.turvo.com/shipments/", d.id>>,
     customer       |-> customerOf(d),
     bolNumber      |-> bolOf(d),
     originLocation |-> formatAddress(AddressOf(originStopOf(d))),
     originPickup   |-> getStopDetails(originStopOf(d)),
     destLocation   |-> formatAddress(AddressOf(destStopOf(d))),
     destDelivery   |-> getStopDetails(destStopOf(d))]


(***************************************************************************)
(* State                                                                   *)
(***************************************************************************)
VARIABLES
  cachedToken,     \* let cachedToken: None (null) or Some(token)
  tokenExpiresAt,  \* let tokenExpiresAt: None (null) or Some(ms instant)
  now,             \* Date.now(), in ms
  rq,              \* per handler: position, locals, calls made, responses sent
  served,          \* number of requests received so far
  issued,          \* the (access_token, expires_in) bodies of the successful auth responses so far
  failedSince,     \* an auth call has failed and getAuthToken has not been called since
  details,         \* argument of a stand-alone parseShipmentData application
  parsed           \* its result, None before the application

vars == <<cachedToken, tokenExpiresAt, now, rq, served, issued, failedSince, details, parsed>>

\* the handlers that can be in progress at once
Reqs == {1, 2}
TickMs == TickSec * MsPerSec
MaxNow == TickMs * (MaxTicks + 1)

\* token bodies the upstream may return: one lifetime below the safety
\* margin and one above it (seconds)
Grants ==
  { [access_token |-> "tokA", expires_in |-> 30],
    [access_token |-> "tokB", expires_in |-> 90] }

\* ---- what the upstream may answer ----
\* The resolution of a fetch: rejected (net = TRUE), or a response with its
\* status.  The body arrives later; body = None: the body is not JSON.
NetErr == [net |-> TRUE, status |-> 0]
Resp(st) == [net |-> FALSE, status |-> st]

\* response.ok
Ok(status) == status >= 200 /\ status <= 299

AuthOutcomes == {NetErr, Resp(401), Resp(200)}

\* bodies of the auth response: an error text, or a body that is not JSON or
\* a token body
AuthBodies(status) ==
  IF Ok(status) THEN {None} \cup { Some(g) : g \in Grants } ELSE {None}

SearchOutcomes == {NetErr, Resp(404), Resp(500), Resp(200)}

SearchBodies ==
  { None,
    Some([details |-> None]),
    Some([details |-> Some([shipments |-> Some(<<>>)])]),
    Some([details |-> Some([shipments |-> Some(<<[id |-> "78"], [id |-> "77"]>>)])]) }

Addr(c, s) == Some([city |-> c, state |-> s])
Stop(label, addr, appt, sched) ==
  [stopType |-> label, address |-> addr, appointment |-> appt, schedulingType |-> sched]

\* a shipment whose route order and stop-type labels diverge
RoutedDetails(id) ==
  [id |-> id, customId |-> Some("L-1"), customerOrder |-> None,
   globalRoute |-> Some(<<
     Stop(Some("Delivery"), Addr(Some("Austin"), Some("TX")), None, None),
     Stop(Some("Pickup"), Addr(Some("Reno"), Some("NV")),
          Some([date |-> Some("d1"), flex |-> Some(2)]), Some("FCFS")) >>)]

DirectOutcomes == {NetErr, Resp(404), Resp(500), Resp(200)}

DirectBodies(id) ==
  { None, Some([details |-> None]), Some([details |-> Some(RoutedDetails(id))]) }

\* the document-list and status-update calls; "list" stands for the
\* documents / statusHistory field of the body
ListOutcomes == {NetErr, Resp(500), Resp(200)}

ListBodies ==
  { None, Some([details |-> None]),
    Some([details |-> Some([list |-> Some(<<"x">>)])]) }

\* bodies of the status-update response: an error text on the non-ok path
NoteBodies(status) == IF Ok(status) THEN ListBodies ELSE {None}

\* the upload-via-urls call
UploadOutcomes == {NetErr, Resp(200), Resp(500)}

UploadBodies(status) ==
  IF Ok(status)
  THEN { None, Some([details |-> Some([documentId |-> "d9"])]) }
  ELSE { None, Some([details |-> None]),
         Some([details |-> Some([errorMessage |-> Some("Bad context")])]),
         Some([details |-> Some([errorMessage |-> Some("Could not download file from url")])]) }

\* ---- what a caller may send ----
\* bodies of POST /api/shipment: each field absent, empty or present, the id
\* a string or a number, and every kind
LookupBodies ==
  { [id |-> None,               type |-> None],
    [id |-> None,               type |-> Some("shipmentID")],
    [id |-> Some(Str("")),      type |-> Some("bolNumber")],
    [id |-> Some(Str(" 77 ")),  type |-> None],
    [id |-> Some(Str(" 77 ")),  type |-> Some("vin")],
    [id |-> Some(Str(" 77 ")),  type |-> Some("shipmentID")],
    [id |-> Some(Str(" 77 ")),  type |-> Some("bolNumber")],
    [id |-> Some(Num("77")),    type |-> None],
    [id |-> Some(Num("77")),    type |-> Some("vin")],
    [id |-> Some(Num("77")),    type |-> Some("shipmentID")] }

NoteInputs == {None, Some("called customer")}
StatusKeyInputs == {None, Some("2105")}

\* bodies of POST /api/shipment/:id/documents/attach
AttachBodies ==
  LET f == Some("bol.pdf")  u == Some("https://front/att/1") IN
  { [filename |-> None, fileUrl |-> u,    fileType |-> Some("application/pdf")],
    [filename |-> f,    fileUrl |-> None, fileType |-> Some("application/pdf")],
    [filename |-> None, fileUrl |-> None, fileType |-> None],
    [filename |-> f,    fileUrl |-> u,    fileType |-> None],
    [filename |-> f,    fileUrl |-> u,    fileType |-> Some("application/pdf")],
    [filename |-> f,    fileUrl |-> u,    fileType |-> Some("text/plain")] }

\* String.prototype.trim on the id alphabet
Trim(s) == IF s = " 77 " THEN "77" ELSE s

\* String.prototype.includes on the file-type and error-message alphabets
Includes(s, sub) ==
  \/ sub = "pdf" /\ s = "application/pdf"
  \/ sub = "image" /\ s = "image/png"
  \/ sub = "Could not download file" /\ s = "Could not download file from url"

\* A handler's record.  body: req.body; id: the (trimmed) id or the :id path
\* parameter; param: the search filter; summary: shipmentSummary.id; target:
\* the id parameter of getShipmentByTurvoId; token: the value getAuthToken
\* returned; last: the upstream response received most recently.
IdleReq ==
  [pc |-> "idle", op |-> "none", ctx |-> "none", body |-> [none |-> None],
   id |-> "", param |-> "", summary |-> "", target |-> "", token |-> None,
   last |-> None, gets |-> 0, calls |-> <<>>, responses |-> <<>>]

Call(kind, arg) == [kind |-> kind, arg |-> arg]

\* the response as the handler knows it when fetch resolves: the status, the
\* body not yet read
Received(call, o) == Some([call |-> call, net |-> o.net, status |-> o.status, body |-> None])

\* response.status of the response the handler holds, 0 when it holds none
StatusOf(r) == IF IsSome(r.last) THEN Val(r.last).status ELSE 0

\* the handler's record once the body b of that response has been read
BodyRead(r, b) == [r EXCEPT !.last = Some([Val(@) EXCEPT !.body = b])]

Init ==
  /\ cachedToken = None
  /\ tokenExpiresAt = None
  /\ now = TickMs
  /\ rq = [p \in Reqs |-> IdleReq]
  /\ served = 0
  /\ issued = {}
  /\ failedSince = FALSE
  /\ details = None
  /\ parsed = None

(***************************************************************************)
(* Handler fragments: each maps a handler's record to its next record.     *)
(***************************************************************************)
\* res.status(s).json(body), after which the handler ends and the token it
\* held goes out of scope
Respond(r, status, body) ==
  [r EXCEPT !.pc = "done", !.ctx = "none", !.token = None,
            !.responses = Append(@, [status |-> status, body |-> body])]

Err(msg) == [error |-> msg]

\* attach: lookupKey / lookupName from fileType (the caller checks it is present)
Classify(fileType) ==
  IF Includes(fileType, "pdf") THEN <<"3005", "Bill of lading">>
  ELSE IF Includes(fileType, "image") THEN <<"3010", "Proof of delivery">>
  ELSE <<"3009", "Other">>

\* The code that follows "token = await getAuthToken()" in caller c, up to
\* its fetch; r.token is the token returned.  In attach,
\* fileType.includes(...) precedes the try block: with fileType absent the
\* TypeError leaves the handler and nothing is sent.
IssueData(r, c) ==
  LET send(arg) == [r EXCEPT !.pc = "dataWait", !.ctx = c,
                             !.calls = Append(@, Call(c, arg))] IN
  CASE c = "search"    -> send(<<r.param, r.id>>)
    [] c = "direct"    -> send(<<r.target>>)
    [] c = "documents" -> send(<<r.id>>)
    [] c = "note"      -> send(<<r.id>>)
    [] c = "attach"    -> IF IsSome(r.body.fileType)
                          THEN send(Classify(Val(r.body.fileType)))
                          ELSE [r EXCEPT !.pc = "escaped", !.ctx = c]

\* the inverted comparison (a plausible slip)
CacheFreshInverted ==
  /\ Truthy(cachedToken)
  /\ IsSome(tokenExpiresAt) /\ Val(tokenExpiresAt) # 0
  /\ Val(tokenExpiresAt) < now

\* cachedToken && tokenExpiresAt && tokenExpiresAt > Date.now()
CacheFresh ==
  /\ Truthy(cachedToken)
  /\ IsSome(tokenExpiresAt) /\ Val(tokenExpiresAt) # 0
  /\ Val(tokenExpiresAt) > now

\* getAuthToken up to its first await: return the cached token, or issue the
\* auth call.  c is the caller to resume.
getAuthToken(r, c) ==
  LET r1 == [r EXCEPT !.gets = @ + 1] IN
  IF CacheFresh
  THEN IssueData([r1 EXCEPT !.token = cachedToken], c)
  ELSE [r1 EXCEPT !.pc = "authWait", !.ctx = c,
                  !.calls = Append(@, Call("auth", <<>>))]

\* a plausible slip: the follow-up fetch by direct id without the search
searchForShipmentDirect(r, param) ==
  getAuthToken([r EXCEPT !.param = param, !.target = r.id], "direct")

\* searchForShipment up to its first await
searchForShipment(r, param) == getAuthToken([r EXCEPT !.param = param], "search")

\* a plausible slip: the caller's id instead of the summary's internal id
getShipmentByCallerId(r, id) == getAuthToken([r EXCEPT !.target = r.id], "direct")

\* getShipmentByTurvoId up to its first await
getShipmentByTurvoId(r, id) == getAuthToken([r EXCEPT !.target = id], "direct")

\* searchResults.details?.shipments?.[0] || null
FirstSummary(json) ==
  IF IsSome(json.details) /\ IsSome(Val(json.details).shipments)
     /\ Len(Val(Val(json.details).shipments)) > 0
  THEN Some(Val(Val(json.details).shipments)[1])
  ELSE None

\* data.details?.documents || [],  data.details?.statusHistory || []
ListOr(json) ==
  IF IsSome(json.details) /\ IsSome(Val(json.details).list)
  THEN Val(Val(json.details).list) ELSE <<>>

\* errorBody?.details?.errorMessage
ErrorMessage(json) ==
  IF IsSome(json.details) THEN Val(json.details).errorMessage ELSE None

\* !id || !type,  !note || !statusKey,  !filename || !fileUrl
MissingLookupFields(id, type) == ~TruthyValue(id) \/ ~Truthy(type)
MissingNoteFields(note, statusKey) == ~Truthy(note) \/ ~Truthy(statusKey)
MissingAttachFields(filename, fileUrl) == ~Truthy(filename) \/ ~Truthy(fileUrl)

\* res.status(404).json(...) of the lookup handler, with the trimmed id
NotFound(r) ==
  Respond(r, 404, Err("Shipment with ID \"" \o r.id \o "\" was not found in Turvo."))

\* the catch clause of the lookup handler
LookupFailed(r) == Respond(r, 500, Err("Error connecting to Turvo"))

\* the catch clause around the handler's getAuthToken call
AuthFailed(r) ==
  IF r.op = "lookup"
  THEN LookupFailed(r)
  ELSE Respond(r, 500, Err("Authentication with Turvo failed."))

\* searchForShipment when its fetch resolves (o.net: rejects): lines 161-170
SearchResolved(r, o) ==
  IF o.net \/ ~Ok(o.status) THEN LookupFailed(r)
  ELSE [r EXCEPT !.pc = "dataBody"]

\* searchForShipment once the body is read, and the tail of the lookup handler
SearchFetched(r, b) ==
  IF ~IsSome(b) THEN LookupFailed(r)
  ELSE LET s == FirstSummary(Val(b)) IN
       IF ~IsSome(s) THEN NotFound(r)
       ELSE getShipmentByTurvoId([r EXCEPT !.summary = Val(s).id], Val(s).id)

\* a plausible slip: the 404 test placed after the !response.ok test
ShipmentResolved404Late(r, o) ==
  IF o.net \/ ~Ok(o.status) THEN LookupFailed(r)
  ELSE [r EXCEPT !.pc = "dataBody"]

\* getShipmentByTurvoId when its fetch resolves (o.net: rejects): lines
\* 140-149, and the tail of the lookup handler
ShipmentResolved(r, o) ==
  IF o.net THEN LookupFailed(r)
  ELSE IF o.status = 404 THEN NotFound(r)
  ELSE IF ~Ok(o.status) THEN LookupFailed(r)
  ELSE [r EXCEPT !.pc = "dataBody"]

\* getShipmentByTurvoId once the body is read, and the tail of the lookup handler
ShipmentFetched(r, b) ==
  IF ~IsSome(b) THEN LookupFailed(r)
  ELSE LET d == parseShipmentData(Val(b).details) IN
       IF d.threw THEN LookupFailed(r)
       ELSE Respond(r, 200, d)

\* the documents handler when its fetch resolves (o.net: rejects)
DocumentsResolved(r, o) ==
  IF o.net \/ ~Ok(o.status) THEN Respond(r, 500, Err("Could not fetch documents"))
  ELSE [r EXCEPT !.pc = "dataBody"]

\* the documents handler once the body is read
DocumentsFetched(r, b) ==
  IF ~IsSome(b) THEN Respond(r, 500, Err("Could not fetch documents"))
  ELSE Respond(r, 200, [documents |-> ListOr(Val(b))])

\* the note handler when its fetch resolves (o.net: rejects); the body is
\* read on both the ok and the non-ok path
NoteResolved(r, o) ==
  IF o.net THEN Respond(r, 500, Err("Could not post note"))
  ELSE [r EXCEPT !.pc = "dataBody"]

\* the note handler once the body is read
NoteFetched(r, b) ==
  IF ~Ok(StatusOf(r)) \/ ~IsSome(b)
  THEN Respond(r, 500, Err("Could not post note"))
  ELSE Respond(r, 200, [statusHistory |-> ListOr(Val(b))])

\* the attach handler when its fetch resolves (o.net: rejects); the body is
\* read on both the ok and the non-ok path
AttachResolved(r, o) ==
  IF o.net THEN Respond(r, 500, Err("fetch failed"))
  ELSE [r EXCEPT !.pc = "dataBody"]

\* the attach handler once the body is read
AttachFetched(r, b) ==
  IF ~IsSome(b) THEN Respond(r, 500, Err("invalid json"))
  ELSE IF ~Ok(StatusOf(r))
  THEN LET m == ErrorMessage(Val(b)) IN
       IF Truthy(m) /\ Includes(Val(m), "Could not download file")
       THEN Respond(r, 500, Err("Turvo server could not access the Front attachment URL. This is likely a security permissions issue."))
       ELSE Respond(r, 500, Err(OrElse(m, "Turvo API failed to attach file.")))
  ELSE Respond(r, 200, [success |-> TRUE, details |-> Val(b).details])

\* a plausible slip: the catch clause forgets the expiry
ExpiryAfterFailureKept == tokenExpiresAt

\* tokenExpiresAt = null in the catch clause
ExpiryAfterFailure == None

\* a plausible slip: the catch clause forgets the token
TokenAfterFailureKept == cachedToken

\* cachedToken = null in the catch clause
TokenAfterFailure == None

\* a plausible slip: the safety margin is forgotten
ExpiryNoMargin(expires_in) == now + expires_in * MsPerSec

\* Date.now() + (data.expires_in - 60) * 1000
ExpiryFor(expires_in) == now + (expires_in - SafetyMarginSec) * MsPerSec

(***************************************************************************)
(* Actions                                                                 *)
(***************************************************************************)
\* a handler not in progress
Free(p) == rq[p].pc \in {"idle", "done", "escaped"}

\* a new request is taken by the first free handler
Arrives(p) ==
  /\ served < MaxReq
  /\ Free(p) /\ \A q \in Reqs : q < p => ~Free(q)
  /\ served' = served + 1

\* The record of a finished handler shows the response it has just sent; it
\* is dropped at the next step.
Kept(q) == IF Free(q) THEN IdleReq ELSE rq[q]

\* handler p moves to record r
Moved(p, r) == [q \in Reqs |-> IF q = p THEN r ELSE Kept(q)]

Resumes(p, pc, ctx) == rq[p].pc = pc /\ rq[p].ctx = ctx /\ UNCHANGED served

\* A getAuthToken call made in this step by handler p, which had made g
\* calls before, is the next call after any earlier failure.
Asked(p, g) == failedSince' = (failedSince /\ rq'[p].gets = g)

Frame == UNCHANGED <<details, parsed>>
CacheSame == UNCHANGED <<cachedToken, tokenExpiresAt, issued>>

\* app.post('/api/shipment') up to its first await.  id.trim() precedes the
\* try block: with an id that is not a string the TypeError leaves the
\* handler and nothing is sent.
LookupRequest(p, id, type) ==
  /\ Arrives(p)
  /\ LET r0 == [IdleReq EXCEPT !.op = "lookup", !.body = [id |-> id, type |-> type]] IN
     rq' = Moved(p,
       IF MissingLookupFields(id, type)
       THEN Respond(r0, 400, Err("Missing ID or type"))
       ELSE IF Val(id).typeof # "string"
       THEN [r0 EXCEPT !.pc = "escaped"]
       ELSE LET r1 == [r0 EXCEPT !.id = Trim(Val(id).text)] IN
            IF Val(type) = "shipmentID" THEN searchForShipment(r1, "customId")
            ELSE IF Val(type) = "bolNumber" THEN searchForShipment(r1, "bolNumber")
            ELSE Respond(r1, 400, Err("Unknown search type")))
  /\ Asked(p, 0) /\ CacheSame /\ Frame /\ UNCHANGED now

\* app.get('/api/shipment/:id/documents') up to its first await
DocumentsRequest(p) ==
  /\ Arrives(p)
  /\ rq' = Moved(p,
       getAuthToken([IdleReq EXCEPT !.op = "documents", !.id = "77"], "documents"))
  /\ Asked(p, 0) /\ CacheSame /\ Frame /\ UNCHANGED now

\* app.post('/api/shipment/:id/note') up to its first await
NoteRequest(p, note, statusKey) ==
  /\ Arrives(p)
  /\ LET r0 == [IdleReq EXCEPT !.op = "note", !.id = "77",
                               !.body = [note |-> note, statusKey |-> statusKey]] IN
     rq' = Moved(p,
       IF MissingNoteFields(note, statusKey)
       THEN Respond(r0, 400, Err("Missing note or statusKey"))
       ELSE getAuthToken(r0, "note"))
  /\ Asked(p, 0) /\ CacheSame /\ Frame /\ UNCHANGED now

\* app.post('/api/shipment/:id/documents/attach') up to its first await
AttachRequest(p, filename, fileUrl, fileType) ==
  /\ Arrives(p)
  /\ LET r0 == [IdleReq EXCEPT !.op = "attach", !.id = "77",
                  !.body = [filename |-> filename, fileUrl |-> fileUrl,
                            fileType |-> fileType]] IN
     rq' = Moved(p,
       IF MissingAttachFields(filename, fileUrl)
       THEN Respond(r0, 400, Err("Missing filename or fileUrl"))
       ELSE getAuthToken(r0, "attach"))
  /\ Asked(p, 0) /\ CacheSame /\ Frame /\ UNCHANGED now

\* getAuthToken when its fetch (line 41) resolves or rejects.  A rejection
\* goes to the catch clause; otherwise the body is awaited (response.text()
\* at line 51, response.json() at line 56) and other handlers run meanwhile.
AuthResponse(p, o) ==
  /\ rq[p].pc = "authWait" /\ UNCHANGED served
  /\ LET r == [rq[p] EXCEPT !.last = Received("auth", o)] IN
     IF o.net
     THEN /\ cachedToken' = TokenAfterFailure
          /\ tokenExpiresAt' = ExpiryAfterFailure
          /\ failedSince' = TRUE
          /\ rq' = Moved(p, AuthFailed(r))
     ELSE /\ UNCHANGED <<cachedToken, tokenExpiresAt, failedSince>>
          /\ rq' = Moved(p, [r EXCEPT !.pc = "authBody"])
  /\ Frame /\ UNCHANGED <<now, issued>>

\* getAuthToken when the body has been read, to its return or throw, and the
\* caller's continuation up to its next await
AuthBody(p, b) ==
  /\ rq[p].pc = "authBody" /\ UNCHANGED served
  /\ LET r == BodyRead(rq[p], b) IN
     IF Ok(StatusOf(rq[p])) /\ IsSome(b)
     THEN LET data == Val(b) IN
          /\ cachedToken' = Some(data.access_token)
          /\ tokenExpiresAt' = Some(ExpiryFor(data.expires_in))
          /\ issued' = issued \cup {data}
          /\ failedSince' = failedSince
          /\ rq' = Moved(p, IssueData([r EXCEPT !.token = Some(data.access_token)], r.ctx))
     ELSE /\ cachedToken' = TokenAfterFailure
          /\ tokenExpiresAt' = ExpiryAfterFailure
          /\ issued' = issued
          /\ failedSince' = TRUE
          /\ rq' = Moved(p, AuthFailed(r))
  /\ Frame /\ UNCHANGED now

\* the fetch of searchForShipment (line 161) resolves or rejects
SearchResponse(p, o) ==
  /\ Resumes(p, "dataWait", "search")
  /\ rq' = Moved(p, SearchResolved([rq[p] EXCEPT !.last = Received("search", o)], o))
  /\ Asked(p, rq[p].gets) /\ CacheSame /\ Frame /\ UNCHANGED now

\* response.json() of searchForShipment (line 170) completes
SearchBody(p, b) ==
  /\ Resumes(p, "dataBody", "search")
  /\ rq' = Moved(p, SearchFetched(BodyRead(rq[p], b), b))
  /\ Asked(p, rq[p].gets) /\ CacheSame /\ Frame /\ UNCHANGED now

\* the fetch of getShipmentByTurvoId (line 140) resolves or rejects
DirectResponse(p, o) ==
  /\ Resumes(p, "dataWait", "direct")
  /\ rq' = Moved(p, ShipmentResolved([rq[p] EXCEPT !.last = Received("direct", o)], o))
  /\ Asked(p, rq[p].gets) /\ CacheSame /\ Frame /\ UNCHANGED now

\* response.json() of getShipmentByTurvoId (line 149) completes
DirectBody(p, b) ==
  /\ Resumes(p, "dataBody", "direct")
  /\ rq' = Moved(p, ShipmentFetched(BodyRead(rq[p], b), b))
  /\ Asked(p, rq[p].gets) /\ CacheSame /\ Frame /\ UNCHANGED now

\* the fetch of the documents handler (line 228) resolves or rejects
DocumentsResponse(p, o) ==
  /\ Resumes(p, "dataWait", "documents")
  /\ rq' = Moved(p, DocumentsResolved([rq[p] EXCEPT !.last = Received("documents", o)], o))
  /\ Asked(p, rq[p].gets) /\ CacheSame /\ Frame /\ UNCHANGED now

\* response.json() of the documents handler (line 232) completes
DocumentsBody(p, b) ==
  /\ Resumes(p, "dataBody", "documents")
  /\ rq' = Moved(p, DocumentsFetched(BodyRead(rq[p], b), b))
  /\ Asked(p, rq[p].gets) /\ CacheSame /\ Frame /\ UNCHANGED now

\* the fetch of the note handler (line 270) resolves or rejects
NoteResponse(p, o) ==
  /\ Resumes(p, "dataWait", "note")
  /\ rq' = Moved(p, NoteResolved([rq[p] EXCEPT !.last = Received("note", o)], o))
  /\ Asked(p, rq[p].gets) /\ CacheSame /\ Frame /\ UNCHANGED now

\* response.text() (line 280) or response.json() (line 284) completes
NoteBody(p, b) ==
  /\ Resumes(p, "dataBody", "note")
  /\ rq' = Moved(p, NoteFetched(BodyRead(rq[p], b), b))
  /\ Asked(p, rq[p].gets) /\ CacheSame /\ Frame /\ UNCHANGED now

\* the fetch of the attach handler (line 344) resolves or rejects
AttachResponse(p, o) ==
  /\ Resumes(p, "dataWait", "attach")
  /\ rq' = Moved(p, AttachResolved([rq[p] EXCEPT !.last = Received("attach", o)], o))
  /\ Asked(p, rq[p].gets) /\ CacheSame /\ Frame /\ UNCHANGED now

\* response.json() (line 354 or 363) completes
AttachBody(p, b) ==
  /\ Resumes(p, "dataBody", "attach")
  /\ rq' = Moved(p, AttachFetched(BodyRead(rq[p], b), b))
  /\ Asked(p, rq[p].gets) /\ CacheSame /\ Frame /\ UNCHANGED now

\* the clock read by Date.now() advances
Tick ==
  /\ now < MaxNow
  /\ now' = now + TickMs
  /\ rq' = [q \in Reqs |-> Kept(q)]
  /\ UNCHANGED <<cachedToken, tokenExpiresAt, served, issued, failedSince, details, parsed>>

Next ==
  \/ \E p \in Reqs, b \in LookupBodies : LookupRequest(p, b.id, b.type)
  \/ \E p \in Reqs : DocumentsRequest(p)
  \/ \E p \in Reqs, n \in NoteInputs, k \in StatusKeyInputs : NoteRequest(p, n, k)
  \/ \E p \in Reqs, b \in AttachBodies :
       AttachRequest(p, b.filename, b.fileUrl, b.fileType)
  \/ \E p \in Reqs, o \in AuthOutcomes : AuthResponse(p, o)
  \/ \E p \in Reqs : \E b \in AuthBodies(StatusOf(rq[p])) : AuthBody(p, b)
  \/ \E p \in Reqs, o \in SearchOutcomes : SearchResponse(p, o)
  \/ \E p \in Reqs, b \in SearchBodies : SearchBody(p, b)
  \/ \E p \in Reqs, o \in DirectOutcomes : DirectResponse(p, o)
  \/ \E p \in Reqs : \E b \in DirectBodies(rq[p].target) : DirectBody(p, b)
  \/ \E p \in Reqs, o \in ListOutcomes : DocumentsResponse(p, o)
  \/ \E p \in Reqs, b \in ListBodies : DocumentsBody(p, b)
  \/ \E p \in Reqs, o \in ListOutcomes : NoteResponse(p, o)
  \/ \E p \in Reqs : \E b \in NoteBodies(StatusOf(rq[p])) : NoteBody(p, b)
  \/ \E p \in Reqs, o \in UploadOutcomes : AttachResponse(p, o)
  \/ \E p \in Reqs : \E b \in UploadBodies(StatusOf(rq[p])) : AttachBody(p, b)
  \/ Tick

Spec == Init /\ [][Next]_vars


(***************************************************************************)
(* Stand-alone application of parseShipmentData to bounded inputs          *)
(***************************************************************************)
StopPayloads ==
  { [address |-> Addr(Some("Reno"), Some("NV")),
     appointment |-> Some([date |-> Some("d1"), flex |-> Some(2)]),
     schedulingType |-> Some("FCFS")],
    [address |-> Addr(Some("Austin"), Some("")),
     appointment |-> Some([date |-> None, flex |-> Some(0)]),
     schedulingType |-> None],
    [address |-> None, appointment |-> None, schedulingType |-> Some("")] }

StopSet ==
  { Stop(l, x.address, x.appointment, x.schedulingType) :
      l \in {None} \cup { Some(v) : v \in StopLabels }, x \in StopPayloads }

Routes ==
  {None} \cup { Some(r) : r \in UNION { [1..n -> StopSet] : n \in 0..MaxRoute } }

BolOrder ==
  [customer |-> Some([name |-> Some("Acme")]),
   externalIds |-> Some(<< [type |-> Some("1400"), value |-> "PO-9"],
                           [type |-> Some("1402"), value |-> "BOL-5"] >>)]

ParseInputs ==
  {None} \cup
  { Some([id |-> "77", customId |-> x[1], customerOrder |-> x[2], globalRoute |-> g]) :
      x \in { <<None, None>>, <<Some("L-1"), Some(<<BolOrder>>)>> }, g \in Routes }

InitParse ==
  /\ cachedToken = None /\ tokenExpiresAt = None /\ now = TickMs
  /\ rq = [p \in Reqs |-> IdleReq] /\ served = 0 /\ issued = {} /\ failedSince = FALSE
  /\ details \in ParseInputs
  /\ parsed = None

ApplyParse ==
  /\ parsed = None
  /\ parsed' = Some(parseShipmentData(details))
  /\ UNCHANGED <<cachedToken, tokenExpiresAt, now, rq, served, issued, failedSince, details>>

NextParse == ApplyParse

SpecParse == InitParse /\ [][NextParse]_vars

(***************************************************************************)
(* Properties                                                              *)
(***************************************************************************)
\* number of auth calls in a call log
AuthCount(calls) == Cardinality({ i \in DOMAIN calls : calls[i].kind = "auth" })

\* the shipment/document calls of a call log, in order
DataCalls(calls) == SelectSeq(calls, LAMBDA c : c.kind # "auth")

\* this step is the arrival of a request at handler p
Arrived(p) == served' = served + 1 /\ Free(p) /\ \A q \in Reqs : q < p => ~Free(q)

\* the call log of p before this step
PrevCalls(p) == IF Arrived(p) THEN <<>> ELSE rq[p].calls

\* this step contains a call of getAuthToken by p
Called(p) ==
  \/ Arrived(p) /\ rq'[p].gets = 1
  \/ served' = served /\ rq'[p].gets = rq[p].gets + 1

\* this step settles p's auth call: its fetch rejects, or its body has been read
AuthSettled(p) ==
  rq[p].pc \in {"authWait", "authBody"} /\ rq'[p].pc \notin {"authWait", "authBody"}

\* the cache holds a token whose expiry is strictly later than the current time
HoldsFutureToken ==
  IsSome(cachedToken) /\ IsSome(tokenExpiresAt) /\ Val(tokenExpiresAt) > now

\* l is a successful auth response
AuthOk(l) ==
  IsSome(l) /\ Val(l).call = "auth" /\ ~Val(l).net
    /\ Val(l).status = 200 /\ IsSome(Val(l).body)

\* status of the only response of a finished handler
LastStatus(r) == r.responses[Len(r.responses)].status

\* instants at which a response can have been received
ReceiptInstants == { k * TickMs : k \in 1..(MaxTicks + 1) }

\* C1: a getAuthToken call made while the cache holds a token with a strictly
\* future expiry issues no auth call, returns the cached token and leaves
\* the cached token and its expiry unchanged.
C1_TokenReuse ==
  [][\A p \in Reqs : (Called(p) /\ HoldsFutureToken) =>
        /\ AuthCount(rq'[p].calls) = AuthCount(PrevCalls(p))
        /\ rq'[p].pc # "authWait"
        /\ rq'[p].token = cachedToken
        /\ cachedToken' = cachedToken
        /\ tokenExpiresAt' = tokenExpiresAt]_vars

C1_Witness ==
  \E p \in Reqs :
    /\ rq[p].pc = "dataWait" /\ rq[p].gets = 1 /\ AuthCount(rq[p].calls) = 0
    /\ HoldsFutureToken /\ rq[p].token = cachedToken

\* C2: a getAuthToken call made while the cache is empty or not strictly in
\* the future issues exactly one auth call; when that call succeeds with
\* (access_token, expires_in) the cache holds that token with expiry
\* now + expires_in - 60 s and the call returns that token; every cached
\* expiry is 60 s before the expiry some successful response declared.
C2_TokenRefresh ==
  /\ [][\A p \in Reqs :
          /\ (Called(p) /\ ~HoldsFutureToken) =>
                /\ rq'[p].pc = "authWait"
                /\ AuthCount(rq'[p].calls) = AuthCount(PrevCalls(p)) + 1
          /\ (AuthSettled(p) /\ AuthOk(rq'[p].last)) =>
                LET data == Val(Val(rq'[p].last).body) IN
                /\ cachedToken' = Some(data.access_token)
                /\ tokenExpiresAt' = Some(now + data.expires_in * 1000 - 60 * 1000)
                /\ rq'[p].token = Some(data.access_token)
                /\ AuthCount(rq'[p].calls) = AuthCount(rq[p].calls)]_vars
  /\ [](IsSome(tokenExpiresAt) =>
          \E g \in issued, r \in ReceiptInstants :
            r <= now /\ Val(tokenExpiresAt) + 60 * 1000 = r + g.expires_in * 1000)

C2_Witness ==
  \E p \in Reqs :
    /\ AuthOk(rq[p].last) /\ AuthCount(rq[p].calls) = 1
    /\ cachedToken = Some(Val(Val(rq[p].last).body).access_token)
    /\ rq[p].token = cachedToken
    /\ tokenExpiresAt = Some(now + Val(Val(rq[p].last).body).expires_in * 1000 - 60 * 1000)

\* C3 as stated: when an auth call fails (non-success status, network or
\* parse error) the cached token and expiry are both cleared and the caller
\* gets the error (it answers 500 without a further call); the next
\* getAuthToken call returns no cached token and issues a new auth call.
C3_NextCallRefetches ==
  [][\A p \in Reqs :
        /\ (AuthSettled(p) /\ ~AuthOk(rq'[p].last)) =>
              /\ cachedToken' = None /\ tokenExpiresAt' = None
              /\ rq'[p].pc = "done" /\ LastStatus(rq'[p]) = 500
              /\ rq'[p].calls = rq[p].calls
        /\ (Called(p) /\ failedSince) =>
              /\ rq'[p].pc = "authWait"
              /\ rq'[p].calls = Append(PrevCalls(p), Call("auth", <<>>))]_vars

\* C3 amended: a failed auth call clears token and expiry together and the
\* caller gets the error.  After it the cache stays empty until an auth call
\* that was already in flight succeeds.  The next getAuthToken call issues a
\* new auth call when the cache is still empty; when such a call has filled
\* the cache meanwhile, the next call is served from that cache: it returns
\* the token stored there if its expiry is in the future, with no auth call.
C3_AuthFailureClears ==
  [][/\ \A p \in Reqs :
          /\ (AuthSettled(p) /\ ~AuthOk(rq'[p].last)) =>
                /\ cachedToken' = None /\ tokenExpiresAt' = None
                /\ rq'[p].pc = "done" /\ LastStatus(rq'[p]) = 500
                /\ rq'[p].calls = rq[p].calls
          /\ (Called(p) /\ failedSince /\ cachedToken = None) =>
                /\ rq'[p].pc = "authWait"
                /\ rq'[p].calls = Append(PrevCalls(p), Call("auth", <<>>))
          /\ (Called(p) /\ failedSince /\ cachedToken # None) =>
                /\ \E g \in issued : cachedToken = Some(g.access_token)
                /\ IF HoldsFutureToken
                   THEN /\ rq'[p].token = cachedToken
                        /\ AuthCount(rq'[p].calls) = AuthCount(PrevCalls(p))
                   ELSE rq'[p].pc = "authWait"
     /\ (failedSince /\ cachedToken = None /\ cachedToken' # None) =>
          \E q \in Reqs : rq[q].pc = "authBody" /\ AuthOk(rq'[q].last)]_vars

\* A lookup's second getAuthToken call is the next call after the other
\* handler's auth call failed and cleared the token this lookup had cached:
\* it issues a new auth call.
C3_Witness ==
  \E p, q \in Reqs :
    /\ p # q /\ served = 2 /\ rq[q].pc = "idle"
    /\ rq[p].op = "lookup" /\ rq[p].pc = "authWait"
    /\ rq[p].gets = 2 /\ AuthCount(rq[p].calls) = 2
    /\ cachedToken = None /\ tokenExpiresAt = None /\ ~failedSince
    /\ now = TickMs /\ issued = {[access_token |-> "tokB", expires_in |-> 90]}

\* the request body misses a required field or names an unknown kind
InvalidBody(r) ==
  CASE r.op = "lookup" ->
         \/ ~IsSome(r.body.id) \/ Val(r.body.id).text = ""
         \/ ~IsSome(r.body.type) \/ Val(r.body.type) \notin {"shipmentID", "bolNumber"}
    [] r.op = "note" ->
         \/ ~IsSome(r.body.note) \/ Val(r.body.note) = ""
         \/ ~IsSome(r.body.statusKey) \/ Val(r.body.statusKey) = ""
    [] r.op = "attach" ->
         \/ ~IsSome(r.body.filename) \/ Val(r.body.filename) = ""
         \/ ~IsSome(r.body.fileUrl) \/ Val(r.body.fileUrl) = ""
    [] OTHER -> FALSE

\* C4: a request with a missing or invalid caller-supplied field is answered
\* 400 with no outbound call made, the auth call included, and the token
\* cache is left unchanged.
C4_ValidationFirst ==
  /\ [](\A p \in Reqs : InvalidBody(rq[p]) =>
          /\ rq[p].pc = "done"
          /\ Len(rq[p].responses) = 1 /\ LastStatus(rq[p]) = 400
          /\ rq[p].calls = <<>> /\ rq[p].gets = 0)
  /\ [][\A p \in Reqs : (Arrived(p) /\ InvalidBody(rq'[p])) =>
          /\ cachedToken' = cachedToken /\ tokenExpiresAt' = tokenExpiresAt]_vars

\* C5: every request ends with exactly one JSON response with status 200,
\* 400, 404 or 500; no failure leaves a handler without a response.
C5_AlwaysResponds ==
  \A p \in Reqs :
    /\ rq[p].pc # "escaped"
    /\ rq[p].pc = "done" =>
         Len(rq[p].responses) = 1 /\ LastStatus(rq[p]) \in {200, 400, 404, 500}

IsLookupOf(r, kind) ==
  r.op = "lookup" /\ ~InvalidBody(r) /\ Val(r.body.type) = kind

\* C6 as stated: a shipmentID lookup calls only the direct shipment-by-id
\* endpoint, once, and never the search endpoint.
C6_DirectOnly ==
  \A p \in Reqs : IsLookupOf(rq[p], "shipmentID") =>
    LET dc == DataCalls(rq[p].calls) IN
    /\ Len(dc) <= 1
    /\ \A i \in DOMAIN dc : dc[i].kind = "direct"

\* C6 amended: a shipmentID lookup issues, once it holds a token, one search
\* call filtered by customId = the trimmed id as its first shipment call,
\* and at most one direct call after it, for the summary the search found.
C6_SearchByCustomId ==
  \A p \in Reqs : IsLookupOf(rq[p], "shipmentID") =>
    LET dc == DataCalls(rq[p].calls) IN
    /\ Len(dc) <= 2
    /\ IsSome(rq[p].token) => Len(dc) >= 1
    /\ (rq[p].pc = "done" /\ LastStatus(rq[p]) \in {200, 404}) => Len(dc) >= 1
    /\ Len(dc) >= 1 => dc[1] = Call("search", <<"customId", Trim(Val(rq[p].body.id).text)>>)
    /\ Len(dc) = 2 => rq[p].summary # "" /\ dc[2] = Call("direct", <<rq[p].summary>>)

C6_Witness ==
  \E p \in Reqs :
    /\ IsLookupOf(rq[p], "shipmentID") /\ rq[p].pc = "done" /\ LastStatus(rq[p]) = 200
    /\ DataCalls(rq[p].calls) = << Call("search", <<"customId", "77">>),
                                   Call("direct", <<rq[p].summary>>) >>

\* first entry of a parsed search body, "" when there is none
FirstId(l) ==
  LET b == Val(l).body IN
  IF IsSome(b) /\ IsSome(Val(b).details) /\ IsSome(Val(Val(b).details).shipments)
     /\ Len(Val(Val(Val(b).details).shipments)) > 0
  THEN Val(Val(Val(b).details).shipments)[1].id ELSE ""

\* l is a search response that was received with a success status
SearchOk(l) ==
  IsSome(l) /\ Val(l).call = "search" /\ ~Val(l).net /\ Val(l).status = 200

\* l is a failed auth response
AuthFailure(l) == IsSome(l) /\ Val(l).call = "auth" /\ ~AuthOk(l)

\* C7 as stated: in a bolNumber lookup the search comes first; when it
\* finds a first entry X exactly one direct fetch of X follows; when it
\* fails or finds nothing no direct fetch is issued.
C7_FollowUpAlways ==
  \A p \in Reqs : (IsLookupOf(rq[p], "bolNumber") /\ rq[p].pc = "done") =>
    LET dc == DataCalls(rq[p].calls) IN
    /\ Len(dc) >= 1 => dc[1].kind = "search"
    /\ rq[p].summary # "" => dc = << dc[1], Call("direct", <<rq[p].summary>>) >>
    /\ rq[p].summary = "" => Len(dc) <= 1

\* C7 amended: the search comes first; when it finds a first entry X the
\* token is acquired again and, unless that acquisition fails, exactly one
\* direct fetch of X follows the search response; when the acquisition or
\* the search fails or the search finds nothing, no direct fetch is issued.
C7_BolSequence ==
  /\ [](\A p \in Reqs : IsLookupOf(rq[p], "bolNumber") =>
          LET dc == DataCalls(rq[p].calls) IN
          /\ Len(dc) <= 2
          /\ Len(dc) >= 1 => dc[1] = Call("search", <<"bolNumber", Trim(Val(rq[p].body.id).text)>>)
          /\ Len(dc) = 2 => rq[p].summary # "" /\ dc[2] = Call("direct", <<rq[p].summary>>)
          /\ rq[p].summary = "" => Len(dc) <= 1
          /\ (rq[p].pc = "dataWait" /\ rq[p].ctx = "direct") => Len(dc) = 2
          /\ (rq[p].pc = "done" /\ rq[p].summary # "") =>
               \/ Len(dc) = 2
               \/ Len(dc) = 1 /\ AuthFailure(rq[p].last) /\ LastStatus(rq[p]) = 500)
  /\ [][\A p \in Reqs :
          (IsLookupOf(rq[p], "bolNumber") /\ rq[p].ctx = "search"
             /\ rq[p].pc \in {"dataWait", "dataBody"}
             /\ rq'[p].pc # "dataBody" /\ rq'[p] # rq[p]) =>
            /\ rq'[p].summary = (IF SearchOk(rq'[p].last) THEN FirstId(rq'[p].last) ELSE "")
            /\ rq'[p].summary = "" => rq'[p].pc = "done" /\ rq'[p].calls = rq[p].calls
            /\ rq'[p].summary # "" => rq'[p].pc \in {"authWait", "dataWait"}]_vars

C7_Witness ==
  \E p \in Reqs :
    /\ IsLookupOf(rq[p], "bolNumber") /\ rq[p].pc = "done" /\ LastStatus(rq[p]) = 200
    /\ rq[p].summary = "78"
    /\ DataCalls(rq[p].calls) = << Call("search", <<"bolNumber", "77">>),
                                   Call("direct", <<"78">>) >>

\* the direct call answered 404
Direct404(l) == IsSome(l) /\ Val(l).call = "direct" /\ ~Val(l).net /\ Val(l).status = 404

\* the search call succeeded with an empty or absent result array
SearchEmpty(l) == SearchOk(l) /\ IsSome(Val(l).body) /\ FirstId(l) = ""

\* a shipment call answered a non-2xx status other than the direct call's 404
NonOkStatus(l) ==
  IsSome(l) /\ Val(l).call \in {"search", "direct"} /\ ~Val(l).net
    /\ ~Ok(Val(l).status) /\ ~Direct404(l)

\* a shipment call answered a body without the details wrapper: JSON that
\* lacks it, or a body that is not JSON at all
LacksDetails(l) ==
  IsSome(l) /\ Val(l).call \in {"search", "direct"} /\ ~Val(l).net
    /\ (~IsSome(Val(l).body) \/ ~IsSome(Val(Val(l).body).details))

\* a shipment call was rejected by the network: fetch threw, no response
Rejected(l) ==
  IsSome(l) /\ Val(l).call \in {"search", "direct"} /\ Val(l).net

\* C8 as stated: a direct 404 or an empty search is answered 404, never
\* 500; 500 is answered only after an auth failure, a non-2xx status other
\* than that 404, or a response without the details wrapper.
C8_NotFoundOnly500 ==
  \A p \in Reqs : (rq[p].op = "lookup" /\ rq[p].pc = "done") =>
    /\ (Direct404(rq[p].last) \/ SearchEmpty(rq[p].last)) => LastStatus(rq[p]) = 404
    /\ LastStatus(rq[p]) = 500 =>
         AuthFailure(rq[p].last) \/ NonOkStatus(rq[p].last) \/ LacksDetails(rq[p].last)

\* C8 amended: as stated, with one more cause of 500: a shipment call
\* rejected by the network, which has no response at all.
C8_NotFound ==
  \A p \in Reqs : (rq[p].op = "lookup" /\ rq[p].pc = "done") =>
    /\ (Direct404(rq[p].last) \/ SearchEmpty(rq[p].last)) => LastStatus(rq[p]) = 404
    /\ LastStatus(rq[p]) = 500 =>
         \/ AuthFailure(rq[p].last) \/ NonOkStatus(rq[p].last)
         \/ LacksDetails(rq[p].last) \/ Rejected(rq[p].last)

C8_Witness ==
  \E p \in Reqs :
    /\ rq[p].op = "lookup" /\ rq[p].pc = "done"
    /\ Direct404(rq[p].last) /\ LastStatus(rq[p]) = 404
    /\ Len(DataCalls(rq[p].calls)) = 2

\* the route handed to parseShipmentData, empty when absent
RouteOf(d) == IF IsSome(d.globalRoute) THEN Val(d.globalRoute) ELSE <<>>

DefaultStopDetails == [date |-> None, scheduling |-> "N/A", window |-> 0]

\* the origin (dest) fields of result x are those of stop s
OriginIs(x, s) ==
  x.originLocation = formatAddress(s.address) /\ x.originPickup = getStopDetails(Some(s))
DestIs(x, s) ==
  x.destLocation = formatAddress(s.address) /\ x.destDelivery = getStopDetails(Some(s))
OriginDefault(x) == x.originLocation = <<"N/A">> /\ x.originPickup = DefaultStopDetails
DestDefault(x) == x.destLocation = <<"N/A">> /\ x.destDelivery = DefaultStopDetails

\* C9 as stated: the origin is the first entry of the route and the
\* destination the last, whatever their labels; with an empty or absent
\* route both take the defaults.
C9_Positional ==
  (IsSome(parsed) /\ IsSome(details)) =>
    LET x == Val(parsed)  route == RouteOf(Val(details)) IN
    IF Len(route) = 0 THEN OriginDefault(x) /\ DestDefault(x)
    ELSE OriginIs(x, route[1]) /\ DestIs(x, route[Len(route)])

Labelled(route, names) ==
  { i \in DOMAIN route : IsSome(route[i].stopType) /\ Val(route[i].stopType) \in names }

\* C9 amended: the origin is the first entry labelled "pickup" and the
\* destination the last entry labelled "delivery" (labels compared without
\* case); when there is no such entry, as with an empty or absent route,
\* the location and appointment fields take the defaults.
C9_ByLabel ==
  (IsSome(parsed) /\ IsSome(details)) =>
    LET x == Val(parsed)
        route == RouteOf(Val(details))
        P == Labelled(route, {"Pickup", "pickup"})
        D == Labelled(route, {"DELIVERY", "Delivery"}) IN
    /\ ~x.threw
    /\ IF P = {} THEN OriginDefault(x)
       ELSE OriginIs(x, route[CHOOSE i \in P : \A j \in P : i <= j])
    /\ IF D = {} THEN DestDefault(x)
       ELSE DestIs(x, route[CHOOSE i \in D : \A j \in D : i >= j])

C9_Witness ==
  /\ IsSome(parsed) /\ IsSome(details)
  /\ LET route == RouteOf(Val(details)) IN
     /\ Len(route) = 3
     /\ Labelled(route, {"Pickup", "pickup"}) = {2, 3}
     /\ Labelled(route, {"DELIVERY", "Delivery"}) = {1}
     /\ route[2].address # route[1].address /\ route[3].address # route[1].address
     /\ Val(parsed).originLocation = <<"Reno", ", ", "NV">>
     /\ Val(parsed).destLocation = <<"Austin", ", ", "N/A">>

\* the cache is empty, or holds a token with the expiry computed from the
\* successful response that carried it
CachePaired ==
  \/ cachedToken = None /\ tokenExpiresAt = None
  \/ \E g \in issued, r \in ReceiptInstants :
       /\ r <= now
       /\ cachedToken = Some(g.access_token)
       /\ tokenExpiresAt = Some(r + (g.expires_in - 60) * 1000)

\* C10: with getAuthToken calls interleaved on the unlocked cache, every
\* token a call returned was issued by a successful auth response, and the
\* cache is always either fully empty or a token with the expiry computed
\* from the same successful response; each change of the cache is the
\* resolution of one auth call, storing that response's pair or clearing.
C10_ConcurrentRefresh ==
  /\ [](CachePaired /\
        \A p \in Reqs : IsSome(rq[p].token) =>
          \E g \in issued : rq[p].token = Some(g.access_token))
  /\ [][(<<cachedToken, tokenExpiresAt>>' # <<cachedToken, tokenExpiresAt>>) =>
          \E p \in Reqs :
            /\ AuthSettled(p)
            /\ IF AuthOk(rq'[p].last)
               THEN LET data == Val(Val(rq'[p].last).body) IN
                    /\ cachedToken' = Some(data.access_token)
                    /\ tokenExpiresAt' = Some(now + (data.expires_in - 60) * 1000)
               ELSE cachedToken' = None /\ tokenExpiresAt' = None]_vars

\* two auth calls in flight at once, one of them made while a token of an
\* earlier response was already cached but expired
C10_Witness ==
  \E p, q \in Reqs :
    /\ p # q /\ rq[p].pc = "authWait" /\ rq[q].pc = "authWait"
    /\ IsSome(cachedToken) /\ ~HoldsFutureToken

====
